---- MODULE Spec2Model ----
(***************************************************************************)
(* Model of the PLY writer, src/src/writer.rs (struct Writer and its      *)
(* impl).  The output stream is a sequence of bytes (0..255); text is     *)
(* written as its ASCII codes.  One step of the model is one call the     *)
(* writer issues on the stream (out.write, a byteorder write_xx, which is *)
(* a write_all, or out.flush); everything the writer does between two     *)
(* stream calls is deterministic and is part of the step (Advance).       *)
(* A stream call either takes its whole buffer or fails with an io::Error.*)
(***************************************************************************)
EXTENDS Integers, Sequences, FiniteSets, TLC

\* ----------------------------------------------------------------- state
VARIABLES
  new_line,   \* Writer.new_line
  out,        \* the bytes the stream has taken
  stk,        \* the instructions the running operation still has to run
  ws,         \* the `written` of each running function, innermost first
  result,     \* Idle, Running, or what the public operation returned
  call,       \* the public operation called and its arguments
  issued,     \* the number of calls made on the stream (write, flush)
  failure     \* the first error the stream returned (NoFailure if none): the
              \* call that failed, the error, and `issued` and the length
              \* of `out` right after it

vars == << new_line, out, stk, ws, result, call, issued, failure >>

\* ------------------------------------------------------------------ bounds
MaxComments == 2
MaxObjInfos == 2
MaxElements == 2
MaxListLen == 2
MaxCount == 2

\* ------------------------------------------------------------------- text
\* "..".as_bytes(): the ASCII code of each character of a literal.
AsciiCode ==
  [c \in {"a","b","c","d","e","f","g","h","i","j","k","l","m","n","o","p","q",
          "r","s","t","u","v","w","x","y","z","0","1","2","3","4","5","6","7",
          "8","9"," ","_",".","-"} |->
    CASE c = "a" -> 97  [] c = "b" -> 98  [] c = "c" -> 99  [] c = "d" -> 100
      [] c = "e" -> 101 [] c = "f" -> 102 [] c = "g" -> 103 [] c = "h" -> 104
      [] c = "i" -> 105 [] c = "j" -> 106 [] c = "k" -> 107 [] c = "l" -> 108
      [] c = "m" -> 109 [] c = "n" -> 110 [] c = "o" -> 111 [] c = "p" -> 112
      [] c = "q" -> 113 [] c = "r" -> 114 [] c = "s" -> 115 [] c = "t" -> 116
      [] c = "u" -> 117 [] c = "v" -> 118 [] c = "w" -> 119 [] c = "x" -> 120
      [] c = "y" -> 121 [] c = "z" -> 122
      [] c = "0" -> 48  [] c = "1" -> 49  [] c = "2" -> 50  [] c = "3" -> 51
      [] c = "4" -> 52  [] c = "5" -> 53  [] c = "6" -> 54  [] c = "7" -> 55
      [] c = "8" -> 56  [] c = "9" -> 57
      [] c = " " -> 32  [] c = "_" -> 95  [] c = "." -> 46  [] c = "-" -> 45]

as_bytes(chars) == [i \in 1..Len(chars) |-> AsciiCode[chars[i]]]

CR == 13
LF == 10

\* NewLine and the string set_newline / new store for it.
NewLineKinds == {"N", "R", "RN"}
NewLineString(kind) ==
  CASE kind = "R" -> <<CR>>
    [] kind = "N" -> <<LF>>
    [] kind = "RN" -> <<CR, LF>>

RECURSIVE Flatten(_)
Flatten(ss) == IF ss = <<>> THEN <<>> ELSE Head(ss) \o Flatten(Tail(ss))

\* to_string of an integer (i8 .. u32, usize): decimal digits, '-' if negative.
RECURSIVE NatDigits(_)
NatDigits(n) ==
  IF n < 10 THEN <<48 + n>> ELSE Append(NatDigits(n \div 10), 48 + (n % 10))

IntToString(v) == IF v < 0 THEN <<45>> \o NatDigits(0 - v) ELSE NatDigits(v)

\* f32 / f64 values are the multiples of 1/4: the value is q / 4 and q is what
\* the model stores.  to_string (Display) prints the shortest decimal form:
\* no fraction for a whole number.
FloatToString(q) ==
  LET a == IF q < 0 THEN 0 - q ELSE q
      frac == CASE a % 4 = 0 -> <<>>
                [] a % 4 = 1 -> <<46, 50, 53>>
                [] a % 4 = 2 -> <<46, 53>>
                [] a % 4 = 3 -> <<46, 55, 53>>
  IN  (IF q < 0 THEN <<45>> ELSE <<>>) \o NatDigits(a \div 4) \o frac

\* ------------------------------------------------------------ scalar types
ScalarTypes == {"Char", "UChar", "Short", "UShort", "Int", "UInt", "Float", "Double"}
IntegerTypes == {"Char", "UChar", "Short", "UShort", "Int", "UInt"}

\* write_scalar_type: the header token of a scalar type.
ScalarToken(t) ==
  CASE t = "Char" -> as_bytes(<<"c","h","a","r">>)
    [] t = "UChar" -> as_bytes(<<"u","c","h","a","r">>)
    [] t = "Short" -> as_bytes(<<"s","h","o","r","t">>)
    [] t = "UShort" -> as_bytes(<<"u","s","h","o","r","t">>)
    [] t = "Int" -> as_bytes(<<"i","n","t">>)
    [] t = "UInt" -> as_bytes(<<"u","i","n","t">>)
    [] t = "Float" -> as_bytes(<<"f","l","o","a","t">>)
    [] t = "Double" -> as_bytes(<<"d","o","u","b","l","e">>)

\* The byte count __write_binary_element adds for a value of each type.
BinaryWidth(t) ==
  CASE t \in {"Char", "UChar"} -> 1
    [] t \in {"Short", "UShort"} -> 2
    [] t \in {"Int", "UInt", "Float"} -> 4
    [] t = "Double" -> 8

RECURSIVE Pow2(_)
Pow2(n) == IF n = 0 THEN 1 ELSE 2 * Pow2(n - 1)

RECURSIVE Reverse(_)
Reverse(s) == IF s = <<>> THEN <<>> ELSE Append(Reverse(Tail(s)), Head(s))

\* The w low bytes of an integer, least significant first (two's complement:
\* \div rounds down and % is never negative).
LowBytes(v, w) == [i \in 1..w |-> (v \div Pow2(8 * (i - 1))) % 256]

\* IEEE-754 bytes, most significant first, of the value q / 4.
HighBit(a) == CHOOSE h \in 0..30 : Pow2(h) <= a /\ a < Pow2(h + 1)
F32Bytes(q) ==
  IF q = 0 THEN <<0, 0, 0, 0>>
  ELSE LET a == IF q < 0 THEN 0 - q ELSE q
           h == HighBit(a)
           e == h - 2 + 127
           m == (a - Pow2(h)) * Pow2(23 - h)
       IN  << (IF q < 0 THEN 128 ELSE 0) + (e \div 2),
              (e % 2) * 128 + (m \div 65536),
              (m \div 256) % 256,
              m % 256 >>
F64Bytes(q) ==
  IF q = 0 THEN <<0, 0, 0, 0, 0, 0, 0, 0>>
  ELSE LET a == IF q < 0 THEN 0 - q ELSE q
           h == HighBit(a)
           e == h - 2 + 1023
           m == (a - Pow2(h)) * Pow2(20 - h)
       IN  << (IF q < 0 THEN 128 ELSE 0) + (e \div 16),
              (e % 16) * 16 + (m \div 65536),
              (m \div 256) % 256,
              m % 256, 0, 0, 0, 0 >>

\* ByteOrder: the bytes write_i16::<B> .. write_f64::<B> (and write_i8 /
\* write_u8, which have no order) put on the stream for a value of type t.
ByteOrders == {"BigEndian", "LittleEndian"}
EncodeScalar(B, t, v) ==
  LET be == CASE t = "Float" -> F32Bytes(v)
              [] t = "Double" -> F64Bytes(v)
              [] OTHER -> Reverse(LowBytes(v, BinaryWidth(t)))
  IN  IF B = "BigEndian" THEN be ELSE Reverse(be)

\* ------------------------------------------------------------ data (ply::*)
\* PropertyType::Scalar(t) and PropertyType::List(index, content).
Scalar(t) == [kind |-> "Scalar", ty |-> t]
List(i, t) == [kind |-> "List", index |-> i, ty |-> t]
PropertyDef(name, data_type) == [name |-> name, data_type |-> data_type]
\* An ordered map (header.elements, element.properties, the payload, a
\* DefaultElement) is the sequence of its values in insertion order, each
\* carrying its key as the field name.
ElementDef(name, count, properties) ==
  [name |-> name, count |-> count, properties |-> properties]
\* Property: one arm per scalar type and one per list-of-scalar type.
Property(kind, t, v) == [kind |-> kind, ty |-> t, v |-> v]

None == [some |-> FALSE]
Some(x) == [some |-> TRUE, v |-> x]

HasKey(map, k) == \E i \in 1..Len(map) : map[i].name = k
\* map[k]
Index(map, k) == map[CHOOSE i \in 1..Len(map) : map[i].name = k]

\* PropertyAccess of DefaultElement: get_char .. get_double (kind "Scalar")
\* and get_list_char .. get_list_double (kind "List") give a value only when
\* the row holds the property under that key with that very arm.
get(element, kind, t, k) ==
  IF HasKey(element, k) /\ Index(element, k).value.kind = kind
     /\ Index(element, k).value.ty = t
  THEN Some(Index(element, k).value.v)
  ELSE None

\* ToElement for DefaultElement: the identity (a clone).
to_element(element, element_def) == element

\* --------------------------------------------------------------- control
\* What is left to run is a stack of instructions; ws holds the local
\* `written` of every function that is running, innermost first.
W(buf) == [op |-> "write", buf |-> buf]               \* out.write(buf)
WAll(buf, n) == [op |-> "write_all", buf |-> buf, n |-> n] \* {try!(out.write_xx(v)); n}
Flush == [op |-> "flush"]                             \* out.flush().unwrap()
Call(body) == [op |-> "call", body |-> body]          \* written += try!(f(..))
Ret == [op |-> "ret"]                                 \* Ok(written)
ReturnOk(n) == [op |-> "return_ok", n |-> n]          \* return Ok(n)
ReturnErr(kind) == [op |-> "return_err", kind |-> kind] \* return Err(..)
Panic == [op |-> "panic"]                             \* unwrap / index panics

StreamOps == {"write", "write_all", "flush"}

Running == [tag |-> "Running"]
Ok(n) == [tag |-> "Ok", n |-> n]
Err(kind) == [tag |-> "Err", kind |-> kind]
Panicked == [tag |-> "Panic"]
Idle == [tag |-> "Idle"]

Control(s, w, res) == [stk |-> s, ws |-> w, res |-> res]

\* return Err(Error::new(kind, ..)) under the try! of every caller: the
\* public operation returns the error.
return_err(kind) == Control(<<>>, <<>>, Err(kind))

\* A writer that drops the error of a failed write (`let _ = out.write(..)`)
\* and goes on with the next statement.
try_err_ignored(e) == Control(Tail(stk), ws, Running)

\* try!(out.write(..)) on Err(e): the function returns Err(e) at once, and so
\* does every caller up to the public operation.
try_err(e) == Control(<<>>, <<>>, Err(e))

\* A function returns n to `written += try!(..)` of its caller, or to the
\* caller of the public operation.
Return(s, w, n) ==
  IF Len(w) = 1 THEN Control(<<>>, <<>>, Ok(n))
  ELSE Control(s, <<w[2] + n>> \o Tail(Tail(w)), Running)

RECURSIVE AfterRet(_)
\* The instructions that follow the running function's own Ret.
AfterRet(s) == IF Head(s).op = "ret" THEN Tail(s) ELSE AfterRet(Tail(s))

RECURSIVE Advance(_)
\* Runs the writer up to its next call on the stream, or to its end.
Advance(c) ==
  IF c.res # Running \/ c.stk = <<>> THEN c
  ELSE LET i == Head(c.stk)
           rest == Tail(c.stk)
       IN  CASE i.op \in StreamOps -> c
             [] i.op = "call" ->
                  Advance(Control(i.body \o <<Ret>> \o rest, <<0>> \o c.ws, Running))
             [] i.op = "ret" -> Advance(Return(rest, c.ws, c.ws[1]))
             [] i.op = "return_ok" -> Advance(Return(AfterRet(rest), c.ws, i.n))
             [] i.op = "return_err" -> return_err(i.kind)
             [] i.op = "panic" -> Control(<<>>, <<>>, Panicked)

\* ---------------------------------------------------------------- Writer
\* Each function of the impl is the sequence of instructions of its body;
\* nl is self.new_line.
write_new_line(nl) == W(nl)

write_line_magic_number(nl) ==
  Call(<< W(as_bytes(<<"p","l","y">>)), write_new_line(nl) >>)

write_encoding(encoding) ==
  W(CASE encoding = "Ascii" -> as_bytes(<<"a","s","c","i","i">>)
      [] encoding = "BinaryBigEndian" ->
           as_bytes(<<"b","i","n","a","r","y","_","b","i","g","_",
                      "e","n","d","i","a","n">>)
      [] encoding = "BinaryLittleEndian" ->
           as_bytes(<<"b","i","n","a","r","y","_","l","i","t","t","l","e","_",
                      "e","n","d","i","a","n">>))

write_line_format(nl, encoding, version) ==
  Call(<< W(as_bytes(<<"f","o","r","m","a","t"," ">>)),
          write_encoding(encoding),
          W(as_bytes(<<" ">>) \o IntToString(version.major) \o as_bytes(<<".">>)
              \o IntToString(version.minor)),
          write_new_line(nl) >>)

write_line_comment(nl, comment) ==
  Call(<< W(as_bytes(<<"c","o","m","m","e","n","t"," ">>) \o comment),
          write_new_line(nl) >>)

write_line_obj_info(nl, obj_info) ==
  Call(<< W(as_bytes(<<"o","b","j","_","i","n","f","o"," ">>) \o obj_info),
          write_new_line(nl) >>)

write_line_element_definition(nl, element) ==
  Call(<< W(as_bytes(<<"e","l","e","m","e","n","t"," ">>) \o element.name
              \o as_bytes(<<" ">>) \o IntToString(element.count)),
          write_new_line(nl) >>)

write_scalar_type(scalar_type) == W(ScalarToken(scalar_type))

write_property_type(data_type) ==
  IF data_type.kind = "Scalar" THEN write_scalar_type(data_type.ty)
  ELSE Call(<< W(as_bytes(<<"l","i","s","t"," ">>)) >>
            \o (IF data_type.index \in {"Float", "Double"}
                THEN << ReturnErr("InvalidInput") >> ELSE << >>)
            \o << write_scalar_type(data_type.index),
                  W(as_bytes(<<" ">>)),
                  write_scalar_type(data_type.ty) >>)

write_line_property_definition(nl, property) ==
  Call(<< W(as_bytes(<<"p","r","o","p","e","r","t","y"," ">>)),
          write_property_type(property.data_type),
          W(as_bytes(<<" ">>)),
          W(property.name),
          write_new_line(nl) >>)

write_element_definition(nl, element) ==
  Call(<< write_line_element_definition(nl, element) >>
       \o [i \in 1..Len(element.properties) |->
             write_line_property_definition(nl, element.properties[i])])

write_line_end_header(nl) ==
  Call(<< W(as_bytes(<<"e","n","d","_","h","e","a","d","e","r">>)),
          write_new_line(nl) >>)

\* A header emitter that writes the obj_info lines before the comment lines.
write_header_obj_infos_first(nl, header) ==
  Call(<< write_line_magic_number(nl),
          write_line_format(nl, header.encoding, header.version) >>
       \o [i \in 1..Len(header.obj_infos) |->
             write_line_obj_info(nl, header.obj_infos[i])]
       \o [i \in 1..Len(header.comments) |->
             write_line_comment(nl, header.comments[i])]
       \o [i \in 1..Len(header.elements) |->
             write_element_definition(nl, header.elements[i])]
       \o << write_line_end_header(nl) >>)

write_header(nl, header) ==
  Call(<< write_line_magic_number(nl),
          write_line_format(nl, header.encoding, header.version) >>
       \o [i \in 1..Len(header.comments) |->
             write_line_comment(nl, header.comments[i])]
       \o [i \in 1..Len(header.obj_infos) |->
             write_line_obj_info(nl, header.obj_infos[i])]
       \o [i \in 1..Len(header.elements) |->
             write_element_definition(nl, header.elements[i])]
       \o << write_line_end_header(nl) >>)

\* value.to_string() of a scalar of type t.
to_string(t, v) == IF t \in {"Float", "Double"} THEN FloatToString(v) ELSE IntToString(v)

write_simple_value(t, value) == W(to_string(t, value))

write_list(t, list) ==
  Call(<< W(IntToString(Len(list))) >>
       \o Flatten([i \in 1..Len(list) |->
                     << W(as_bytes(<<" ">>)), W(to_string(t, list[i])) >>]))

write_ascii_list(t, list) == write_list(t, list)

write_ascii_property(data_element) ==
  IF data_element.kind = "Scalar"
  THEN write_simple_value(data_element.ty, data_element.v)
  ELSE write_ascii_list(data_element.ty, data_element.v)

\* The row, then the line terminator.
__write_ascii_element(nl, element) ==
  Call(IF element = << >> THEN << Panic >>
       ELSE << write_ascii_property(element[1].value) >>
            \o Flatten([i \in 1..(Len(element) - 1) |->
                          << W(as_bytes(<<" ">>)),
                             write_ascii_property(element[i + 1].value) >>])
            \o << W(as_bytes(<<" ">>)), write_new_line(nl) >>)

write_binary_list(B, t, list) ==
  Call([i \in 1..Len(list) |-> WAll(EncodeScalar(B, t, list[i]), BinaryWidth(t))])

\* vec_len as i8 .. vec_len as u32: the low bits of the usize (the model's
\* counts are below 2^31, which as i32 / as u32 leave as they are).
CastTo(t, n) ==
  CASE t = "Char" -> ((n + 128) % 256) - 128
    [] t = "UChar" -> n % 256
    [] t = "Short" -> ((n + 32768) % 65536) - 32768
    [] t = "UShort" -> n % 65536
    [] t \in {"Int", "UInt"} -> n

\* get_prop!: the value, or `return Ok(17)`.
get_prop(option, then) == IF option.some THEN then ELSE << ReturnOk(17) >>

\* One row in binary, in byte order B.
__write_binary_element(B, element, element_def) ==
  Call(Flatten([i \in 1..Len(element_def.properties) |->
    LET property_def == element_def.properties[i]
        k == property_def.name
        dt == property_def.data_type
    IN  IF dt.kind = "Scalar"
        THEN LET o == get(element, "Scalar", dt.ty, k)
             IN  get_prop(o, << WAll(EncodeScalar(B, dt.ty, o.v), BinaryWidth(dt.ty)) >>)
        ELSE LET vec_len == element_def.count
                 o == get(element, "List", dt.ty, k)
             IN  (IF dt.index \in {"Float", "Double"}
                  THEN << ReturnErr("InvalidInput") >>
                  ELSE << WAll(EncodeScalar(B, dt.index, CastTo(dt.index, vec_len)),
                               BinaryWidth(dt.index)) >>)
                 \o get_prop(o, << write_binary_list(B, dt.ty, o.v) >>)]))

write_ascii_element(nl, element, element_def) ==
  __write_ascii_element(nl, to_element(element, element_def))

write_big_endian_element(element, element_def) ==
  __write_binary_element("BigEndian", element, element_def)

write_little_endian_element(element, element_def) ==
  __write_binary_element("BigEndian", element, element_def)

write_payload_of_element(nl, element_list, element_def, header) ==
  Call([i \in 1..Len(element_list) |->
    CASE header.encoding = "Ascii" ->
           __write_ascii_element(nl, to_element(element_list[i], element_def))
      [] header.encoding = "BinaryBigEndian" ->
           __write_binary_element("BigEndian", element_list[i], element_def)
      [] header.encoding = "BinaryLittleEndian" ->
           __write_binary_element("LittleEndian", element_list[i], element_def)])

write_payload(nl, payload, header) ==
  LET element_defs == header.elements
  IN  Call([i \in 1..Len(payload) |->
        IF HasKey(element_defs, payload[i].name)
        THEN write_payload_of_element(nl, payload[i].rows,
                                      Index(element_defs, payload[i].name), header)
        ELSE Panic])

write_ply(nl, ply) ==
  Call(<< write_header(nl, ply.header),
          write_payload(nl, ply.payload, ply.header),
          Flush >>)

\* ---------------------------------------------------------------- inputs
N_vertex == as_bytes(<<"v","e","r","t","e","x">>)
N_face == as_bytes(<<"f","a","c","e">>)
N_edge == as_bytes(<<"e","d","g","e">>)
N_x == as_bytes(<<"x">>)
N_y == as_bytes(<<"y">>)
N_list_of_int == as_bytes(<<"l","i","s","t","_","o","f","_","i","n","t">>)
N_vertex_index == as_bytes(<<"v","e","r","t","e","x","_","i","n","d","e","x">>)
N_id == as_bytes(<<"i","d">>)
N_p == as_bytes(<<"p">>)

\* Values of each scalar type (floats in quarters: 4 is 1.0, 14 is 3.5).
Sample(t) ==
  CASE t = "Char" -> <<-128, 127, -1, 5>>
    [] t = "UChar" -> <<200, 255, 0, 9>>
    [] t = "Short" -> <<258, -32768, -2, 32767>>
    [] t = "UShort" -> <<258, 65535, 513, 0>>
    [] t = "Int" -> <<7, -2, 16909060, 2147483647>>
    [] t = "UInt" -> <<16909060, 2147483647, 1, 0>>
    [] t = "Float" -> <<4, -5, 14, 0>>
    [] t = "Double" -> <<14, -5, 8, 3>>

Value(name, kind, t, v) == [name |-> name, value |-> Property(kind, t, v)]

\* The i-th comment and obj_info text: "a", "b", .. and "0", "1", ..
CommentText(i) == <<96 + i>>
ObjInfoText(i) == <<47 + i>>

VertexDef ==
  ElementDef(N_vertex, 2, << PropertyDef(N_x, Scalar("Float")),
                             PropertyDef(N_y, Scalar("Float")),
                             PropertyDef(N_list_of_int, List("UChar", "Int")) >>)
FaceDef ==
  ElementDef(N_face, 1, << PropertyDef(N_vertex_index, List("Short", "UShort")),
                           PropertyDef(N_id, Scalar("Char")) >>)
\* An element whose list property breaks the rule on index types.
EdgeDef ==
  ElementDef(N_edge, 0, << PropertyDef(N_p, List("Float", "Int")) >>)
ElementDefs == {VertexDef, FaceDef, EdgeDef}

VertexRow(x, y, l) ==
  << Value(N_x, "Scalar", "Float", x), Value(N_y, "Scalar", "Float", y),
     Value(N_list_of_int, "List", "Int", l) >>
FaceRow(l, id) ==
  << Value(N_vertex_index, "List", "UShort", l), Value(N_id, "Scalar", "Char", id) >>

\* Rows as the schema declares them, and rows that lack a declared property
\* or hold it under another type.
GoodRows(name) ==
  CASE name = N_vertex -> << VertexRow(4, 8, <<7>>), VertexRow(14, -5, << >>) >>
    [] name = N_face -> << FaceRow(<<258, 513>>, -1) >>
    [] name = N_edge -> << >>
LackingRows(name) ==
  CASE name = N_vertex ->
         << << Value(N_x, "Scalar", "Float", 4),
               Value(N_list_of_int, "List", "Int", <<7>>) >>,
            VertexRow(14, -5, << >>) >>
    [] name = N_face ->
         << << Value(N_vertex_index, "List", "Int", <<7>>),
               Value(N_id, "Scalar", "Char", -1) >> >>
    [] name = N_edge -> << >>

\* Sequences of at most MaxElements different element definitions.
RECURSIVE ElementSeqsOf(_)
ElementSeqsOf(n) ==
  IF n = 0 THEN {<< >>}
  ELSE LET shorter == ElementSeqsOf(n - 1)
       IN  shorter \cup
           { Append(s, e) : s \in {t \in shorter : Len(t) = n - 1},
                            e \in ElementDefs }
ElementSeqs ==
  { s \in ElementSeqsOf(MaxElements) :
      \A i, j \in 1..Len(s) : i # j => s[i].name # s[j].name }

Encodings == {"Ascii", "BinaryBigEndian", "BinaryLittleEndian"}

Header(encoding, nc, no, elements) ==
  [encoding |-> encoding, version |-> [major |-> 1, minor |-> 0],
   comments |-> [i \in 1..nc |-> CommentText(i)],
   obj_infos |-> [i \in 1..no |-> ObjInfoText(i)],
   elements |-> elements]

\* Headers: every number of comments and obj_infos over every sequence of
\* elements, and every encoding over every sequence of elements.
Headers ==
  { Header("Ascii", nc, no, es) : nc \in 0..MaxComments, no \in 0..MaxObjInfos,
                                  es \in ElementSeqs }
    \cup { Header(enc, 1, 1, es) : enc \in Encodings, es \in ElementSeqs }

\* The payload of a header: a group of rows per element (as declared, or
\* lacking a property), in the header's order or in the opposite order.
Payload(elements, lacking, reversed) ==
  LET p == [i \in 1..Len(elements) |->
              [name |-> elements[i].name,
               rows |-> IF lacking THEN LackingRows(elements[i].name)
                        ELSE GoodRows(elements[i].name)]]
  IN  IF reversed THEN Reverse(p) ELSE p

Plys ==
  { [header |-> Header(enc, 1, 1, es),
     payload |-> Payload(es, lacking, reversed)] :
      enc \in Encodings, es \in ElementSeqs,
      lacking \in BOOLEAN, reversed \in BOOLEAN }

\* Every property type there is, under one name.
PropertyTypes ==
  { Scalar(t) : t \in ScalarTypes }
    \cup { List(i, t) : i \in ScalarTypes, t \in ScalarTypes }
PropertyDefs == { PropertyDef(N_p, dt) : dt \in PropertyTypes }

\* One row and its element definition, for the operations that write one row.
ScalarCases ==
  UNION { { [element |-> << Value(N_p, "Scalar", t, Sample(t)[i]) >>,
             element_def |->
               ElementDef(N_vertex, 1, << PropertyDef(N_p, Scalar(t)) >>)] :
              i \in DOMAIN Sample(t) } : t \in ScalarTypes }
ListCases ==
  { [element |-> << Value(N_p, "List", dt.ty, SubSeq(Sample(dt.ty), 1, n)) >>,
     element_def |-> ElementDef(N_face, count, << PropertyDef(N_p, dt) >>)] :
      dt \in { List(i, "Int") : i \in ScalarTypes }
               \cup { List("UChar", t) : t \in ScalarTypes },
      n \in 0..MaxListLen, count \in 0..MaxCount }
DocCases ==
  { [element |-> r, element_def |-> d] :
      d \in {VertexDef, FaceDef},
      r \in { GoodRows(VertexDef.name)[1], LackingRows(VertexDef.name)[1],
              GoodRows(VertexDef.name)[2], GoodRows(FaceDef.name)[1],
              LackingRows(FaceDef.name)[1], << >> } }
RowCases == ScalarCases \cup ListCases \cup DocCases

\* The errors the stream's write and flush may return.
IoErrors == {"BrokenPipe", "WriteZero"}

\* ------------------------------------------------------------ operations
NoFailure == [on |-> "none"]
Failed(on, e, at, len) == [on |-> on, e |-> e, at |-> at, len |-> len]

\* Writer::new()
Init ==
  /\ new_line = NewLineString("RN")
  /\ out = << >>
  /\ stk = << >>
  /\ ws = << >>
  /\ result = Idle
  /\ call = [op |-> "none"]
  /\ issued = 0
  /\ failure = NoFailure

set_newline(kind) ==
  /\ result = Idle
  /\ new_line' = NewLineString(kind)
  /\ UNCHANGED << out, stk, ws, result, call, issued, failure >>

\* The running operation goes on from control state c, up to its next call
\* on the stream.
Continue(c) ==
  LET a == Advance(c)
  IN  /\ stk' = a.stk
      /\ ws' = a.ws
      /\ result' = a.res

\* A public operation is entered with the given body.
Enter(body) == Continue(Control(<< body >>, << >>, Running))

call_write_ply ==
  \E ply \in Plys :
    /\ result = Idle
    /\ call' = [op |-> "write_ply", ply |-> ply]
    /\ Enter(write_ply(new_line, ply))
    /\ UNCHANGED << new_line, out, issued, failure >>

call_write_header ==
  \E header \in Headers :
    /\ result = Idle
    /\ call' = [op |-> "write_header", header |-> header]
    /\ Enter(write_header(new_line, header))
    /\ UNCHANGED << new_line, out, issued, failure >>

call_write_element_definition ==
  \E element \in ElementDefs :
    /\ result = Idle
    /\ call' = [op |-> "write_element_definition", element |-> element]
    /\ Enter(write_element_definition(new_line, element))
    /\ UNCHANGED << new_line, out, issued, failure >>

call_write_line_property_definition ==
  \E property \in PropertyDefs :
    /\ result = Idle
    /\ call' = [op |-> "write_line_property_definition", property |-> property]
    /\ Enter(write_line_property_definition(new_line, property))
    /\ UNCHANGED << new_line, out, issued, failure >>

call_write_payload ==
  \E ply \in Plys :
    /\ result = Idle
    /\ call' = [op |-> "write_payload", ply |-> ply]
    /\ Enter(write_payload(new_line, ply.payload, ply.header))
    /\ UNCHANGED << new_line, out, issued, failure >>

call_write_ascii_element ==
  \E rc \in RowCases :
    /\ result = Idle
    /\ call' = [op |-> "write_ascii_element", row |-> rc]
    /\ Enter(write_ascii_element(new_line, rc.element, rc.element_def))
    /\ UNCHANGED << new_line, out, issued, failure >>

call_write_big_endian_element ==
  \E rc \in RowCases :
    /\ result = Idle
    /\ call' = [op |-> "write_big_endian_element", row |-> rc]
    /\ Enter(write_big_endian_element(rc.element, rc.element_def))
    /\ UNCHANGED << new_line, out, issued, failure >>

call_write_little_endian_element ==
  \E rc \in RowCases :
    /\ result = Idle
    /\ call' = [op |-> "write_little_endian_element", row |-> rc]
    /\ Enter(write_little_endian_element(rc.element, rc.element_def))
    /\ UNCHANGED << new_line, out, issued, failure >>

AtStreamOp(op) == result = Running /\ stk # << >> /\ Head(stk).op = op

\* written += try!(out.write(buf)): the stream takes the buffer.
stream_write_ok ==
  /\ AtStreamOp("write")
  /\ out' = out \o Head(stk).buf
  /\ issued' = issued + 1
  /\ Continue(Control(Tail(stk), << ws[1] + Len(Head(stk).buf) >> \o Tail(ws), Running))
  /\ UNCHANGED << new_line, call, failure >>

\* written += {try!(out.write_xx::<B>(v)); n}: the stream takes the bytes.
stream_write_all_ok ==
  /\ AtStreamOp("write_all")
  /\ out' = out \o Head(stk).buf
  /\ issued' = issued + 1
  /\ Continue(Control(Tail(stk), << ws[1] + Head(stk).n >> \o Tail(ws), Running))
  /\ UNCHANGED << new_line, call, failure >>

\* The stream's write returns an error: try! returns it.
stream_write_err ==
  /\ AtStreamOp("write") \/ AtStreamOp("write_all")
  /\ \E e \in IoErrors :
       /\ failure' = IF failure = NoFailure
                     THEN Failed("write", e, issued + 1, Len(out)) ELSE failure
       /\ Continue(try_err(e))
  /\ issued' = issued + 1
  /\ UNCHANGED << new_line, out, call >>

\* out.flush().unwrap() on Ok
stream_flush_ok ==
  /\ AtStreamOp("flush")
  /\ issued' = issued + 1
  /\ Continue(Control(Tail(stk), ws, Running))
  /\ UNCHANGED << new_line, out, call, failure >>

\* out.flush().unwrap() on Err: unwrap panics
stream_flush_err ==
  /\ AtStreamOp("flush")
  /\ \E e \in IoErrors :
       failure' = IF failure = NoFailure
                  THEN Failed("flush", e, issued + 1, Len(out)) ELSE failure
  /\ issued' = issued + 1
  /\ Continue(Control(<< Panic >>, ws, Running))
  /\ UNCHANGED << new_line, out, call >>

Next ==
  \/ \E kind \in NewLineKinds : set_newline(kind)
  \/ call_write_ply
  \/ call_write_header
  \/ call_write_element_definition
  \/ call_write_line_property_definition
  \/ call_write_payload
  \/ call_write_ascii_element
  \/ call_write_big_endian_element
  \/ call_write_little_endian_element
  \/ stream_write_ok
  \/ stream_write_all_ok
  \/ stream_write_err
  \/ stream_flush_ok
  \/ stream_flush_err

Spec == Init /\ [][Next]_vars

\* ----------------------------------------------------------------- claims
Done == result.tag \in {"Ok", "Err", "Panic"}

IsPrefix(s, t) == Len(s) <= Len(t) /\ s = SubSeq(t, 1, Len(s))

\* The header text the PLY grammar prescribes, line by line.
EncodingToken(encoding) ==
  CASE encoding = "Ascii" -> as_bytes(<<"a","s","c","i","i">>)
    [] encoding = "BinaryBigEndian" ->
         as_bytes(<<"b","i","n","a","r","y","_","b","i","g","_","e","n","d","i","a","n">>)
    [] encoding = "BinaryLittleEndian" ->
         as_bytes(<<"b","i","n","a","r","y","_","l","i","t","t","l","e","_",
                    "e","n","d","i","a","n">>)
TypeToken(data_type) ==
  IF data_type.kind = "Scalar" THEN ScalarToken(data_type.ty)
  ELSE as_bytes(<<"l","i","s","t"," ">>) \o ScalarToken(data_type.index)
         \o <<32>> \o ScalarToken(data_type.ty)
PropertyLine(p) ==
  as_bytes(<<"p","r","o","p","e","r","t","y"," ">>) \o TypeToken(p.data_type)
    \o <<32>> \o p.name
ElementBlock(e) ==
  << as_bytes(<<"e","l","e","m","e","n","t"," ">>) \o e.name \o <<32>>
       \o IntToString(e.count) >>
    \o [i \in 1..Len(e.properties) |-> PropertyLine(e.properties[i])]
HeaderLines(h) ==
  << as_bytes(<<"p","l","y">>),
     as_bytes(<<"f","o","r","m","a","t"," ">>) \o EncodingToken(h.encoding)
       \o <<32>> \o IntToString(h.version.major) \o <<46>>
       \o IntToString(h.version.minor) >>
    \o [i \in 1..Len(h.comments) |->
          as_bytes(<<"c","o","m","m","e","n","t"," ">>) \o h.comments[i]]
    \o [i \in 1..Len(h.obj_infos) |->
          as_bytes(<<"o","b","j","_","i","n","f","o"," ">>) \o h.obj_infos[i]]
    \o Flatten([i \in 1..Len(h.elements) |-> ElementBlock(h.elements[i])])
    \o << as_bytes(<<"e","n","d","_","h","e","a","d","e","r">>) >>
HeaderText(nl, h) ==
  LET lines == HeaderLines(h)
  IN  Flatten([i \in 1..Len(lines) |-> lines[i] \o nl])

\* C1: at every moment of write_header the stream holds a prefix of the
\* header text (magic, format, the comments in order, the obj_infos in order,
\* each element line followed by its property lines in order, end_header,
\* every line followed by the line terminator), and when write_header (alone
\* or as the first part of write_ply) returns Ok it has written exactly that
\* text: no line twice, none left out.
C1_HeaderLineOrder ==
  /\ call.op = "write_header" =>
       LET text == HeaderText(new_line, call.header)
       IN  /\ IsPrefix(out, text)
           /\ result.tag = "Ok" => out = text
  /\ (call.op = "write_ply" /\ result.tag = "Ok") =>
       IsPrefix(HeaderText(new_line, call.ply.header), out)

C1_Witness ==
  /\ call.op = "write_header"
  /\ result.tag = "Ok"
  /\ Len(call.header.comments) >= 2
  /\ Len(call.header.obj_infos) >= 2
  /\ Len(call.header.elements) >= 2
  /\ out = HeaderText(new_line, call.header)

RECURSIVE LittleEndianSum(_)
LittleEndianSum(bytes) ==
  IF bytes = << >> THEN 0 ELSE Head(bytes) + 256 * LittleEndianSum(Tail(bytes))
ReadInt(B, t, bytes) ==
  LET le == IF B = "LittleEndian" THEN bytes ELSE Reverse(bytes)
      w == Len(le)
      top == le[w]
      low == LittleEndianSum(SubSeq(le, 1, w - 1))
  IN  IF t \in {"Char", "Short", "Int"}
      THEN low + (IF top >= 128 THEN top - 256 ELSE top) * Pow2(8 * (w - 1))
      ELSE IF w = 4 /\ top >= 128 THEN -1
           ELSE low + top * Pow2(8 * (w - 1))

\* The fixed width in bytes the format gives each scalar type.
DeclaredWidth(t) ==
  CASE t = "Char" -> 1 [] t = "UChar" -> 1 [] t = "Short" -> 2 [] t = "UShort" -> 2
    [] t = "Int" -> 4 [] t = "UInt" -> 4 [] t = "Float" -> 4 [] t = "Double" -> 8

BinaryEncodings == {"BinaryBigEndian", "BinaryLittleEndian"}
OrderOf(encoding) ==
  IF encoding = "BinaryBigEndian" THEN "BigEndian" ELSE "LittleEndian"

\* C2: in binary mode the length prefix of a list property is the length L of
\* the row's list, in the declared index type, and the property takes
\* index_width + L * content_width bytes, whatever the element's declared
\* row count: for one row of one list property written big-endian, and for
\* the one row of the element face written under either binary encoding.
C2_ListLengthPrefix ==
  /\ (/\ call.op = "write_big_endian_element"
      /\ call.row \in ListCases
      /\ call.row.element_def.properties[1].data_type.index \in IntegerTypes
      /\ result.tag = "Ok") =>
       LET dt == call.row.element_def.properties[1].data_type
           L == Len(call.row.element[1].value.v)
           iw == DeclaredWidth(dt.index)
       IN  /\ Len(out) = iw + L * DeclaredWidth(dt.ty)
           /\ ReadInt("BigEndian", dt.index, SubSeq(out, 1, iw)) = L
  /\ (/\ call.op = "write_payload"
      /\ call.ply.header.encoding \in BinaryEncodings
      /\ call.ply.header.elements = << FaceDef >>
      /\ call.ply.payload = Payload(<< FaceDef >>, FALSE, FALSE)
      /\ result.tag = "Ok") =>
       /\ Len(out) = 2 + 2 * 2 + 1
       /\ ReadInt(OrderOf(call.ply.header.encoding), "Short", SubSeq(out, 1, 2)) = 2

\* The row holds no value of the declared type for some declared property.
Lacks(element, element_def) ==
  \E i \in 1..Len(element_def.properties) :
    LET p == element_def.properties[i]
    IN  \A j \in 1..Len(element) :
          ~ (/\ element[j].name = p.name
             /\ element[j].value.kind = p.data_type.kind
             /\ element[j].value.ty = p.data_type.ty)

\* C3: writing, in binary mode, a row that lacks a property its element
\* declares ends in an error of the whole call, never in success.
C3_MissingPropertyIsError ==
  /\ (/\ call.op \in {"write_big_endian_element", "write_little_endian_element"}
      /\ Lacks(call.row.element, call.row.element_def)
      /\ Done) => result.tag = "Err"
  /\ (/\ call.op \in {"write_ply", "write_payload"}
      /\ call.ply.header.encoding \in BinaryEncodings
      /\ \E i \in 1..Len(call.ply.payload) :
           /\ HasKey(call.ply.header.elements, call.ply.payload[i].name)
           /\ \E r \in 1..Len(call.ply.payload[i].rows) :
                Lacks(call.ply.payload[i].rows[r],
                      Index(call.ply.header.elements, call.ply.payload[i].name))
      /\ Done) => result.tag # "Ok"

\* The text of one row: the text forms of its properties, one space between
\* two of them, a list as its count followed by its values.
PropertyText(value) ==
  IF value.kind = "Scalar" THEN to_string(value.ty, value.v)
  ELSE IntToString(Len(value.v))
         \o Flatten([i \in 1..Len(value.v) |-> <<32>> \o to_string(value.ty, value.v[i])])
RowText(element) ==
  PropertyText(element[1].value)
    \o Flatten([i \in 1..(Len(element) - 1) |->
                  <<32>> \o PropertyText(element[i + 1].value)])

\* C4: in ASCII mode a row is written as RowText followed by the line
\* terminator (no space before the terminator), and the rows (1.0, 2.0, [7])
\* and (3.5, -1.25, []) of the element vertex are written as "1 2 1 7\r\n"
\* and "3.5 -1.25 0\r\n".
C4_AsciiRow ==
  /\ (/\ call.op = "write_ascii_element"
      /\ call.row.element # << >>
      /\ result.tag = "Ok") => out = RowText(call.row.element) \o new_line
  /\ (/\ call.op = "write_payload"
      /\ new_line = << CR, LF >>
      /\ call.ply.header.encoding = "Ascii"
      /\ call.ply.header.elements = << VertexDef >>
      /\ call.ply.payload = Payload(<< VertexDef >>, FALSE, FALSE)
      /\ result.tag = "Ok") =>
       out = as_bytes(<<"1"," ","2"," ","1"," ","7">>) \o << CR, LF >>
               \o as_bytes(<<"3",".","5"," ","-","1",".","2","5"," ","0">>)
               \o << CR, LF >>

\* C5: a scalar property written by write_big_endian_element or
\* write_little_endian_element takes its declared width, and for an integer
\* type the bytes read back in the byte order the operation names give the
\* value.
C5_ScalarWidthAndOrder ==
  (/\ call.op \in {"write_big_endian_element", "write_little_endian_element"}
   /\ call.row \in ScalarCases
   /\ result.tag = "Ok") =>
    LET t == call.row.element[1].value.ty
        B == IF call.op = "write_big_endian_element" THEN "BigEndian"
             ELSE "LittleEndian"
    IN  /\ Len(out) = DeclaredWidth(t)
        /\ t \in IntegerTypes => ReadInt(B, t, out) = call.row.element[1].value.v

\* C6: writing the definition of a list property whose index type is Float
\* or Double fails with InvalidInput, and nothing of the type token ("list "
\* included) is on the stream then: the stream holds "property " alone.
C6_FloatIndexWritesNoTypeToken ==
  (/\ call.op = "write_line_property_definition"
   /\ call.property.data_type.kind = "List"
   /\ call.property.data_type.index \in {"Float", "Double"}
   /\ failure = NoFailure
   /\ Done) =>
    /\ result = Err("InvalidInput")
    /\ out = as_bytes(<<"p","r","o","p","e","r","t","y"," ">>)

\* C7: when the flush at the end of write_ply fails, write_ply returns that
\* error.
C7_FlushFailureIsReturned ==
  (call.op = "write_ply" /\ failure.on = "flush") => result = Err(failure.e)

\* The bytes an instruction puts on a stream that takes every write, when no
\* function in it returns early.
RECURSIVE Emitted(_)
Emitted(i) ==
  CASE i.op \in {"write", "write_all"} -> i.buf
    [] i.op = "call" ->
         IF i.body = << >> THEN << >>
         ELSE Emitted(Head(i.body)) \o Emitted(Call(Tail(i.body)))
    [] OTHER -> << >>

\* C9: write_payload writes the groups of rows in the order of the header's
\* elements, each group once, also when the payload names the elements in
\* another order.
C9_GroupsInSchemaOrder ==
  (/\ call.op = "write_payload"
   /\ \A i \in 1..Len(call.ply.payload) :
        call.ply.payload[i].rows = GoodRows(call.ply.payload[i].name)
   /\ result.tag = "Ok") =>
    LET es == call.ply.header.elements
    IN  out = Flatten([i \in 1..Len(es) |->
                IF HasKey(call.ply.payload, es[i].name)
                THEN Emitted(write_payload_of_element(
                       new_line, Index(call.ply.payload, es[i].name).rows,
                       es[i], call.ply.header))
                ELSE << >>])

\* C10: the count an operation returns with Ok is the number of bytes it
\* appended to the stream.
C10_CountIsBytesWritten ==
  result.tag = "Ok" => result.n = Len(out)

====
